---- MODULE Spec2Model ----
(***************************************************************************)
(* Friend-request service of social_network/users/views.py:                *)
(* FriendRequestViewSet.send_request / accept_request / reject_request /   *)
(* list_friends / list_pending_requests over the FriendRequest table.      *)
(*                                                                         *)
(* Spec      the handlers run one after another, two calling users         *)
(* SpecRate  the same handlers, one calling user, a table large enough to  *)
(*           reach the rate limit and go on                                *)
(* SpecConc  two request workers run the handlers query by query           *)
(* SpecApi   the handlers and the destroy route the ModelViewSet adds, one  *)
(*           after another                                                 *)
(* SpecBurst two request workers run send_request query by query, all of   *)
(*           the users as recipients                                       *)
(***************************************************************************)
EXTENDS Integers, FiniteSets, Sequences, Bags, TLC

(* ---- bounds ---- *)
NumUsers == 4
NumCallers == 2
MaxRequests == 3
NumRateCallers == 1
MaxRateRequests == 4
NumProcs == 2
NumConcCallers == 1
NumConcRecipients == 2
MaxConcRequests == 2
MaxBurstRequests == 4

(* ---- program constants ---- *)
maxPendingOutgoing == 3
None == 0

Users == 1..NumUsers
Callers == 1..NumCallers
RateCallers == 1..NumRateCallers
ConcCallers == 1..NumConcCallers
Procs == 1..NumProcs
NoSuchUser == NumUsers + 1
ToUserIds == Users \cup {NoSuchUser}
ConcToUserIds == (1..NumConcRecipients) \cup {NoSuchUser}
Status == {"pending", "accepted", "rejected"}

VARIABLES requests, nextId, response, tasks
vars == <<requests, nextId, response, tasks>>

(* ---- queries on the FriendRequest table ---- *)
(* variant: the count ignores the status *)
PendingFrom_AnyStatus(rs, user) == {r \in rs : r.from_user = user}

PendingFrom(rs, user) == {r \in rs : r.from_user = user /\ r.status = "pending"}

(* variant: the pair looked up in either direction *)
PairRows_EitherDirection(rs, from, to) ==
    {r \in rs : \/ (r.from_user = from /\ r.to_user = to)
                \/ (r.from_user = to /\ r.to_user = from)}

PairRows(rs, from, to) == {r \in rs : r.from_user = from /\ r.to_user = to}

(* variant: the lookup ignores the id *)
RowsById_AnyRow(rs, id) == rs

RowsById(rs, id) == {r \in rs : r.id = id}

NullRow == [id |-> None, from_user |-> None, to_user |-> None, status |-> "null"]

Response(op, user, arg, code) == [op |-> op, user |-> user, arg |-> arg, code |-> code]

Task(pc, op, user, arg, obj, code) ==
    [pc |-> pc, op |-> op, user |-> user, arg |-> arg, obj |-> obj, code |-> code]

Idle == Task("idle", "none", None, None, NullRow, 0)

Init ==
    /\ requests = {}
    /\ nextId = 1
    /\ response = Response("none", None, None, 0)
    /\ tasks = [p \in Procs |-> Idle]

(* get_object_or_404 raises Http404 when no row matches the lookup *)
get_object_or_404(rows) == IF rows = {} THEN "Http404" ELSE "ok"

(* the except clauses of send_request: User.DoesNotExist -> 404, any other *)
(* exception -> 500                                                        *)
send_except(exc) == IF exc = "User.DoesNotExist" THEN 404 ELSE 500

(* the except clauses of accept_request and reject_request *)
status_except(exc) == IF exc = "FriendRequest.DoesNotExist" THEN 404 ELSE 500

(* variant: sender and recipient exchanged *)
NewRequest_Swapped(id, from, to) ==
    [id |-> id, from_user |-> to, to_user |-> from, status |-> "pending"]

(* a new FriendRequest row: auto-increment id, status defaults to pending *)
NewRequest(id, from, to) ==
    [id |-> id, from_user |-> from, to_user |-> to, status |-> "pending"]

(* variant: the limit compared with > *)
RateLimited_Above(rs, user) == Cardinality(PendingFrom(rs, user)) > maxPendingOutgoing

(* the rate check of send_request *)
RateLimited(rs, user) == Cardinality(PendingFrom(rs, user)) >= maxPendingOutgoing

(* variant: the lookup sees pending rows only *)
GetPair_PendingOnly(rs, from, to) ==
    IF {r \in PairRows(rs, from, to) : r.status = "pending"} = {} THEN "DoesNotExist"
    ELSE "found"

(* the lookup of get_or_create: objects.get(from_user, to_user) *)
GetPair(rs, from, to) ==
    IF PairRows(rs, from, to) = {} THEN "DoesNotExist"
    ELSE IF Cardinality(PairRows(rs, from, to)) > 1 THEN "MultipleObjectsReturned"
    ELSE "found"

(* variant: the handler ignores created *)
SendLookupCode_IgnoreCreated(found) ==
    IF found \in {"found", "DoesNotExist"} THEN 201 ELSE send_except(found)

(* the response of send_request once the rate check has passed and the     *)
(* lookup of get_or_create has answered: an existing row gives created =   *)
(* False and 400, an exception gives the except clause's code              *)
SendLookupCode(found) ==
    IF found = "found" THEN 400
    ELSE IF found = "DoesNotExist" THEN 201
    ELSE send_except(found)

(* send_request: rate check, recipient lookup, get_or_create *)
send_request(user, to_user_id) ==
    /\ UNCHANGED tasks
    /\ IF RateLimited(requests, user)
       THEN /\ response' = Response("send", user, to_user_id, 429)
            /\ UNCHANGED <<requests, nextId>>
       ELSE IF get_object_or_404({u \in Users : u = to_user_id}) # "ok"
       THEN /\ response' = Response("send", user, to_user_id,
                              send_except(get_object_or_404({u \in Users : u = to_user_id})))
            /\ UNCHANGED <<requests, nextId>>
       ELSE IF GetPair(requests, user, to_user_id) # "DoesNotExist"
       THEN /\ response' = Response("send", user, to_user_id,
                              SendLookupCode(GetPair(requests, user, to_user_id)))
            /\ UNCHANGED <<requests, nextId>>
       ELSE /\ requests' = requests \cup {NewRequest(nextId, user, to_user_id)}
            /\ nextId' = nextId + 1
            /\ response' = Response("send", user, to_user_id, 201)

(* friend_request.status = new_status on the row that was read *)
WithStatus(obj, new_status) == [obj EXCEPT !.status = new_status]

(* variant: save() inserts the row it holds beside the stored one *)
Save_AppendRow(rs, obj) == rs \cup {obj}

(* friend_request.save(): writes every field of the row with obj's id *)
Save(rs, obj) == {r \in rs : r.id # obj.id} \cup {obj}

(* the row get_object_or_404 returns *)
TheRow(rows) == CHOOSE r \in rows : TRUE

(* accept_request *)
accept_request(user, request_id) ==
    /\ UNCHANGED tasks
    /\ IF get_object_or_404(RowsById(requests, request_id)) # "ok"
       THEN /\ response' = Response("accept", user, request_id,
                              status_except(get_object_or_404(RowsById(requests, request_id))))
            /\ UNCHANGED <<requests, nextId>>
       ELSE /\ requests' = Save(requests,
                              WithStatus(TheRow(RowsById(requests, request_id)), "accepted"))
            /\ response' = Response("accept", user, request_id, 200)
            /\ UNCHANGED nextId

(* reject_request *)
reject_request(user, request_id) ==
    /\ UNCHANGED tasks
    /\ IF get_object_or_404(RowsById(requests, request_id)) # "ok"
       THEN /\ response' = Response("reject", user, request_id,
                              status_except(get_object_or_404(RowsById(requests, request_id))))
            /\ UNCHANGED <<requests, nextId>>
       ELSE /\ requests' = Save(requests,
                              WithStatus(TheRow(RowsById(requests, request_id)), "rejected"))
            /\ response' = Response("reject", user, request_id, 200)
            /\ UNCHANGED nextId

(* The rows of the list_friends query: User LEFT JOIN sent_requests LEFT   *)
(* JOIN received_requests, filtered by the OR of the two Q objects.  A     *)
(* user without rows on one side joins a single NULL row there.            *)
SentRows(rs, u) ==
    IF {r \in rs : r.from_user = u} = {} THEN {NullRow} ELSE {r \in rs : r.from_user = u}

ReceivedRows(rs, u) ==
    IF {r \in rs : r.to_user = u} = {} THEN {NullRow} ELSE {r \in rs : r.to_user = u}

(* variant: the sent side without the status condition *)
SentMatches_AnyStatus(s, user) == s.to_user = user

(* Q(sent_requests__to_user=user, sent_requests__status='accepted') *)
SentMatches(s, user) == s.to_user = user /\ s.status = "accepted"

(* variant: the received side left out of the query *)
ReceivedMatches_Never(r, user) == FALSE

(* Q(received_requests__from_user=user, received_requests__status='accepted') *)
ReceivedMatches(r, user) == r.from_user = user /\ r.status = "accepted"

FriendJoinRows(rs, user) ==
    {j \in UNION {{<<u, s, r>> : s \in SentRows(rs, u), r \in ReceivedRows(rs, u)} : u \in Users} :
        SentMatches(j[2], user) \/ ReceivedMatches(j[3], user)}

(* list_friends result: one User per matching join row (a bag of user ids) *)
list_friends_result(rs, user) ==
    [u \in {j[1] : j \in FriendJoinRows(rs, user)} |->
        Cardinality({j \in FriendJoinRows(rs, user) : j[1] = u})]

(* variant: the inbox filtered on the sender *)
list_pending_result_Outbox(rs, user) ==
    {r \in rs : r.from_user = user /\ r.status = "pending"}

(* list_pending_requests result: the rows with to_user = user, pending *)
list_pending_result(rs, user) == {r \in rs : r.to_user = user /\ r.status = "pending"}

(* list_friends: a read *)
list_friends(user) ==
    /\ response' = Response("list_friends", user, None, 200)
    /\ UNCHANGED <<requests, nextId, tasks>>

(* list_pending_requests: a read *)
list_pending_requests(user) ==
    /\ response' = Response("list_pending_requests", user, None, 200)
    /\ UNCHANGED <<requests, nextId, tasks>>

(* request ids a caller may name: the ids issued so far and one never issued *)
RequestIds == 1..nextId

Next ==
    \/ \E user \in Callers, to_user_id \in ToUserIds :
          send_request(user, to_user_id) /\ Cardinality(requests') <= MaxRequests
    \/ \E user \in Callers, request_id \in RequestIds : accept_request(user, request_id)
    \/ \E user \in Callers, request_id \in RequestIds : reject_request(user, request_id)
    \/ \E user \in Callers : list_friends(user)
    \/ \E user \in Callers : list_pending_requests(user)

Spec == Init /\ [][Next]_vars

NextRate ==
    \/ \E user \in RateCallers, to_user_id \in ToUserIds :
          send_request(user, to_user_id) /\ Cardinality(requests') <= MaxRateRequests
    \/ \E user \in RateCallers, request_id \in RequestIds : accept_request(user, request_id)
    \/ \E user \in RateCallers, request_id \in RequestIds : reject_request(user, request_id)
    \/ \E user \in RateCallers : list_friends(user)
    \/ \E user \in RateCallers : list_pending_requests(user)

SpecRate == Init /\ [][NextRate]_vars

(* destroy: FriendRequestViewSet is a ModelViewSet registered with the     *)
(* router, which routes DELETE friend-requests/<id>/ to it: the row is     *)
(* looked up by id (404 when there is none) and deleted (204)              *)
destroy(user, request_id) ==
    /\ UNCHANGED tasks
    /\ IF get_object_or_404(RowsById(requests, request_id)) # "ok"
       THEN /\ response' = Response("destroy", user, request_id, 404)
            /\ UNCHANGED <<requests, nextId>>
       ELSE /\ requests' = requests \ RowsById(requests, request_id)
            /\ response' = Response("destroy", user, request_id, 204)
            /\ UNCHANGED nextId

(* the handlers and the destroy route; ids are issued up to MaxRequests *)
NextApi ==
    \/ \E user \in ConcCallers, to_user_id \in ConcToUserIds :
          send_request(user, to_user_id) /\ nextId' <= MaxRequests + 1
    \/ \E user \in ConcCallers, request_id \in RequestIds : accept_request(user, request_id)
    \/ \E user \in ConcCallers, request_id \in RequestIds : reject_request(user, request_id)
    \/ \E user \in ConcCallers : list_friends(user)
    \/ \E user \in ConcCallers : list_pending_requests(user)
    \/ \E user \in ConcCallers, request_id \in RequestIds : destroy(user, request_id)

SpecApi == Init /\ [][NextApi]_vars

(* ---- the handlers query by query, one request worker per p ---- *)
Free(p) == tasks[p].pc \in {"idle", "done"}

Done(op, user, arg, code) == Task("done", op, user, arg, NullRow, code)

(* FriendRequest declares the pair (from_user, to_user) unique: the insert *)
(* of a second row for a pair raises IntegrityError                        *)
UniqueViolation(rs, from, to) == PairRows(rs, from, to) # {}

(* variant: a plain create, the IntegrityError reaches the handler *)
CreateOutcome_Plain(rs, from, to) ==
    IF UniqueViolation(rs, from, to) THEN "IntegrityError" ELSE "DoesNotExist"

(* the create of get_or_create: on IntegrityError it reads the row again   *)
(* and returns it with created = False                                     *)
CreateOutcome(rs, from, to) ==
    IF UniqueViolation(rs, from, to) THEN GetPair(rs, from, to) ELSE "DoesNotExist"

(* send_request, the rate check: the count query *)
SendCheck(p, user, to_user_id) ==
    /\ Free(p)
    /\ tasks' = [tasks EXCEPT ![p] =
          IF RateLimited(requests, user)
          THEN Done("send", user, to_user_id, 429)
          ELSE Task("resolve", "send", user, to_user_id, NullRow, 0)]
    /\ UNCHANGED <<requests, nextId, response>>

(* send_request, get_object_or_404(User, id=to_user_id) *)
SendResolve(p) ==
    /\ tasks[p].pc = "resolve"
    /\ tasks' = [tasks EXCEPT ![p] =
          IF get_object_or_404({u \in Users : u = tasks[p].arg}) # "ok"
          THEN Done("send", tasks[p].user, tasks[p].arg,
                    send_except(get_object_or_404({u \in Users : u = tasks[p].arg})))
          ELSE [tasks[p] EXCEPT !.pc = "get"]]
    /\ UNCHANGED <<requests, nextId, response>>

(* send_request, the lookup of get_or_create *)
SendGet(p) ==
    /\ tasks[p].pc = "get"
    /\ tasks' = [tasks EXCEPT ![p] =
          IF GetPair(requests, tasks[p].user, tasks[p].arg) # "DoesNotExist"
          THEN Done("send", tasks[p].user, tasks[p].arg,
                    SendLookupCode(GetPair(requests, tasks[p].user, tasks[p].arg)))
          ELSE [tasks[p] EXCEPT !.pc = "create"]]
    /\ UNCHANGED <<requests, nextId, response>>

(* send_request, the create of get_or_create and the response *)
SendCreate(p) ==
    /\ tasks[p].pc = "create"
    /\ IF CreateOutcome(requests, tasks[p].user, tasks[p].arg) # "DoesNotExist"
       THEN /\ tasks' = [tasks EXCEPT ![p] =
                  Done("send", tasks[p].user, tasks[p].arg,
                       SendLookupCode(CreateOutcome(requests, tasks[p].user, tasks[p].arg)))]
            /\ UNCHANGED <<requests, nextId>>
       ELSE /\ requests' = requests \cup {NewRequest(nextId, tasks[p].user, tasks[p].arg)}
            /\ nextId' = nextId + 1
            /\ tasks' = [tasks EXCEPT ![p] = Done("send", tasks[p].user, tasks[p].arg, 201)]
    /\ UNCHANGED response

(* accept_request / reject_request, get_object_or_404(FriendRequest, id) *)
StatusGet(p, op, user, request_id) ==
    /\ Free(p)
    /\ tasks' = [tasks EXCEPT ![p] =
          IF get_object_or_404(RowsById(requests, request_id)) # "ok"
          THEN Done(op, user, request_id,
                    status_except(get_object_or_404(RowsById(requests, request_id))))
          ELSE Task("save", op, user, request_id, TheRow(RowsById(requests, request_id)), 0)]
    /\ UNCHANGED <<requests, nextId, response>>

AcceptGet(p, user, request_id) == StatusGet(p, "accept", user, request_id)

RejectGet(p, user, request_id) == StatusGet(p, "reject", user, request_id)

(* accept_request, the assignment, save() and the response *)
AcceptSave(p) ==
    /\ tasks[p].pc = "save"
    /\ tasks[p].op = "accept"
    /\ requests' = Save(requests, WithStatus(tasks[p].obj, "accepted"))
    /\ tasks' = [tasks EXCEPT ![p] = Done("accept", tasks[p].user, tasks[p].arg, 200)]
    /\ UNCHANGED <<nextId, response>>

(* reject_request, the assignment, save() and the response *)
RejectSave(p) ==
    /\ tasks[p].pc = "save"
    /\ tasks[p].op = "reject"
    /\ requests' = Save(requests, WithStatus(tasks[p].obj, "rejected"))
    /\ tasks' = [tasks EXCEPT ![p] = Done("reject", tasks[p].user, tasks[p].arg, 200)]
    /\ UNCHANGED <<nextId, response>>

NextConc ==
    \/ \E p \in Procs, user \in ConcCallers, to_user_id \in ConcToUserIds :
          SendCheck(p, user, to_user_id)
    \/ \E p \in Procs : SendResolve(p)
    \/ \E p \in Procs : SendGet(p)
    \/ \E p \in Procs : SendCreate(p) /\ Cardinality(requests') <= MaxConcRequests
    \/ \E p \in Procs, user \in ConcCallers, request_id \in RequestIds :
          AcceptGet(p, user, request_id)
    \/ \E p \in Procs, user \in ConcCallers, request_id \in RequestIds :
          RejectGet(p, user, request_id)
    \/ \E p \in Procs : AcceptSave(p)
    \/ \E p \in Procs : RejectSave(p)

SpecConc == Init /\ [][NextConc]_vars

(* send_request alone, query by query, by two workers *)
NextBurst ==
    \/ \E p \in Procs, user \in ConcCallers, to_user_id \in ToUserIds :
          SendCheck(p, user, to_user_id)
    \/ \E p \in Procs : SendResolve(p)
    \/ \E p \in Procs : SendGet(p)
    \/ \E p \in Procs : SendCreate(p) /\ Cardinality(requests') <= MaxBurstRequests

SpecBurst == Init /\ [][NextBurst]_vars

(* ======================= properties ======================= *)
(* the spec's vocabulary, stated apart from the handlers' own queries *)
PendingOutgoing(rs, F) ==
    Cardinality({r \in rs : r.from_user = F /\ r.status = "pending"})

HasRecord(rs, F, T) == \E r \in rs : r.from_user = F /\ r.to_user = T

AcceptedBetween(rs, A, B) ==
    \E r \in rs : /\ r.status = "accepted"
                  /\ \/ (r.from_user = A /\ r.to_user = B)
                     \/ (r.from_user = B /\ r.to_user = A)

Friends(rs, user) == DOMAIN list_friends_result(rs, user)

(* the pairs <<A, B>> with B in listFriends(A) *)
FriendPairs(rs) == UNION {{<<A, B>> : B \in Friends(rs, A)} : A \in Users}

C2_PairUnique ==
    \A F \in Users, T \in Users :
        Cardinality({r \in requests : r.from_user = F /\ r.to_user = T}) <= 1

(* a second send for a pair whose row was rejected has been answered *)
C2_Witness ==
    /\ response.op = "send"
    /\ response.code = 400
    /\ \E r \in requests : /\ r.from_user = response.user
                           /\ r.to_user = response.arg
                           /\ r.status = "rejected"
    /\ Cardinality(requests) = MaxRequests

(* C3: two sends for the same ordered pair running with their lookup and  *)
(* create steps interleaved: the one whose create finds the row already    *)
(* there is answered 400 and adds nothing, the other is answered 201, and  *)
(* no state holds two rows for one pair.                                   *)
C3_ConcurrentSend ==
    /\ [](\A F \in Users, T \in Users :
            Cardinality({r \in requests : r.from_user = F /\ r.to_user = T}) <= 1)
    /\ [][\A p \in Procs :
            (tasks[p].pc = "create" /\ tasks'[p].pc = "done") =>
               IF HasRecord(requests, tasks[p].user, tasks[p].arg)
               THEN tasks'[p].code = 400 /\ requests' = requests
               ELSE /\ tasks'[p].code = 201
                    /\ Cardinality({r \in requests' : /\ r.from_user = tasks[p].user
                                                       /\ r.to_user = tasks[p].arg}) = 1]_vars

(* both workers passed the lookup for one pair while it had no row; one    *)
(* has created the row and the other is about to run its create            *)
C3_Witness ==
    \E p \in Procs, q \in Procs :
        /\ p # q
        /\ tasks[p].pc = "done" /\ tasks[p].op = "send" /\ tasks[p].code = 201
        /\ tasks[q].pc = "create"
        /\ tasks[p].user = tasks[q].user /\ tasks[p].arg = tasks[q].arg
        /\ HasRecord(requests, tasks[q].user, tasks[q].arg)

(* C4: once a row F->T exists, a send(F, T) by a sender below the rate     *)
(* limit is answered 400 whatever the row's status, creates no row and     *)
(* leaves the existing row as it is.                                       *)
C4_Duplicate ==
    [][(/\ response'.op = "send"
        /\ PendingOutgoing(requests, response'.user) < 3
        /\ HasRecord(requests, response'.user, response'.arg))
         => response'.code = 400 /\ requests' = requests]_vars

(* duplicate sends answered for a rejected, an accepted and a pending row *)
C4_WitnessOf(st) ==
    /\ response.op = "send"
    /\ response.code = 400
    /\ \E r \in requests : /\ r.from_user = response.user
                           /\ r.to_user = response.arg
                           /\ r.status = st

C4_Witness == C4_WitnessOf("rejected")

(* C5: friendship is symmetric in every reachable state, and right after   *)
(* accept on the request A->B each of A and B lists the other.             *)
C5_Symmetry ==
    /\ FriendPairs(requests) = {<<pr[2], pr[1]>> : pr \in FriendPairs(requests)}
    /\ (response.op = "accept" /\ response.code = 200) =>
          \A r \in requests : r.id = response.arg =>
              /\ r.to_user \in Friends(requests, r.from_user)
              /\ r.from_user \in Friends(requests, r.to_user)

(* an accept of a request between two different users has been answered *)
C5_Witness ==
    /\ response.op = "accept"
    /\ response.code = 200
    /\ \E r \in requests : /\ r.id = response.arg
                           /\ r.from_user # r.to_user
                           /\ r.to_user \in Friends(requests, r.from_user)
                           /\ r.from_user \in Friends(requests, r.to_user)

(* C6: listFriends(user) returns exactly the users U with an accepted      *)
(* request between user and U, in either direction.                        *)
C6_FriendsExact ==
    \A user \in Users :
        Friends(requests, user) = {U \in Users : AcceptedBetween(requests, user, U)}

(* list_friends answered for a user with a friend, a pending and a         *)
(* rejected request                                                        *)
C6_Witness ==
    /\ response.op = "list_friends"
    /\ Friends(requests, response.user) # {}
    /\ \E r \in requests : r.status = "pending" /\ response.user \in {r.from_user, r.to_user}
    /\ \E r \in requests : r.status = "rejected" /\ response.user \in {r.from_user, r.to_user}

(* C7: listPendingInbox(B) holds the request A->B exactly while that row   *)
(* exists with toUser = B and status pending: it is there right after      *)
(* send(A, B), gone after accept or reject, and in no other user's inbox.  *)
C7_Inbox ==
    /\ \A B \in Users :
          list_pending_result(requests, B) =
              {r \in requests : r.to_user = B /\ r.status = "pending"}
    /\ (response.op = "send" /\ response.code = 201) =>
          \E r \in list_pending_result(requests, response.arg) :
              /\ r.from_user = response.user
              /\ \A B \in Users \ {response.arg} : r \notin list_pending_result(requests, B)
    /\ (response.op \in {"accept", "reject"} /\ response.code = 200) =>
          \A B \in Users : \A r \in list_pending_result(requests, B) : r.id # response.arg

(* a reject has emptied one inbox while another request is still pending *)
C7_Witness ==
    /\ response.op = "reject"
    /\ response.code = 200
    /\ \E r \in requests : r.id = response.arg /\ r.status = "rejected"
    /\ \E B \in Users : list_pending_result(requests, B) # {}

(* C8: a send by a sender below the rate limit to an id no user has is     *)
(* answered 404 and creates no row.                                        *)
C8_UserNotFound ==
    [][(/\ response'.op = "send"
        /\ PendingOutgoing(requests, response'.user) < 3
        /\ response'.arg \notin Users)
         => response'.code = 404 /\ requests' = requests]_vars

(* C9: accept and reject of an id no FriendRequest has are answered 404    *)
(* and leave every row unchanged.                                          *)
C9_RequestNotFound ==
    [][(/\ response'.op \in {"accept", "reject"}
        /\ ~\E r \in requests : r.id = response'.arg)
         => response'.code = 404 /\ requests' = requests]_vars

C11_Directions ==
    [][/\ (/\ response'.op = "send"
           /\ PendingOutgoing(requests, response'.user) < 3
           /\ response'.arg \in Users
           /\ ~HasRecord(requests, response'.user, response'.arg))
            => /\ response'.code = 201
               /\ HasRecord(requests', response'.user, response'.arg)
               /\ \A r \in requests :
                     (r.from_user = response'.arg /\ r.to_user = response'.user)
                        => r \in requests'
       /\ (response'.op \in {"accept", "reject"} /\ response'.code = 200) =>
             \A r \in requests : \A o \in requests :
                (/\ r.id = response'.arg
                 /\ o.id # r.id
                 /\ o.from_user = r.to_user
                 /\ o.to_user = r.from_user) => o \in requests']_vars

(* B has sent to A although A's request to B was rejected: both rows exist *)
C11_Witness ==
    /\ response.op = "send"
    /\ response.code = 201
    /\ response.user # response.arg
    /\ HasRecord(requests, response.user, response.arg)
    /\ \E r \in requests : /\ r.from_user = response.arg
                           /\ r.to_user = response.user
                           /\ r.status = "rejected"

(* C12: accepted and rejected are terminal: a row whose status is accepted *)
(* or rejected keeps that status in every later state.                     *)
C12_Terminal ==
    [][\A r \in requests :
          r.status \in {"accepted", "rejected"} =>
             \A n \in requests' : n.id = r.id => n.status = r.status]_vars

(* C15: no FriendRequest row has fromUser equal to toUser.                 *)
C15_NoSelfRequest == \A r \in requests : r.from_user # r.to_user

(* C16: a successful send(F, T) (sender below the rate limit, T exists, no *)
(* row F->T) is answered 201 and adds exactly one row, with a fresh id,    *)
(* fromUser = F, toUser = T and status pending; every earlier row is       *)
(* unchanged, and a send is answered 201 in no other case.                 *)
C16_SendFrame ==
    [][response'.op = "send" =>
         IF /\ PendingOutgoing(requests, response'.user) < 3
            /\ response'.arg \in Users
            /\ ~HasRecord(requests, response'.user, response'.arg)
         THEN /\ response'.code = 201
              /\ requests \subseteq requests'
              /\ Cardinality(requests') = Cardinality(requests) + 1
              /\ \A r \in requests' \ requests :
                    /\ r.from_user = response'.user
                    /\ r.to_user = response'.arg
                    /\ r.status = "pending"
                    /\ \A o \in requests : o.id # r.id
         ELSE response'.code # 201 /\ requests' = requests]_vars

(* a send between two different users has added a row beside earlier rows  *)
(* of other statuses                                                       *)
C16_Witness ==
    /\ response.op = "send"
    /\ response.code = 201
    /\ response.user # response.arg
    /\ \E r \in requests : r.status = "accepted"
    /\ \E r \in requests : /\ r.id = nextId - 1
                           /\ r.from_user = response.user
                           /\ r.to_user = response.arg
                           /\ r.status = "pending"

(* C18: accept_request and reject_request change a request only when the   *)
(* acting user is its recipient: a call by anyone else leaves the row as   *)
(* it is.                                                                  *)
C18_RecipientOnly ==
    [][response'.op \in {"accept", "reject"} =>
          \A r \in requests :
             (r.id = response'.arg /\ r.to_user # response'.user) => r \in requests']_vars

(* C19: listFriends(user) contains each friend at most once.  Stated for   *)
(* tables without a request from a user to itself, so that a repeat found  *)
(* here owes nothing to such rows.                                         *)
C19_NoDuplicates ==
    (\A r \in requests : r.from_user # r.to_user) =>
        \A user \in Users :
            \A u \in DOMAIN list_friends_result(requests, user) :
                list_friends_result(requests, user)[u] = 1

(* C20: a successful accept or reject changes only the status of the row   *)
(* with the given id: its fromUser and toUser, every other row and the     *)
(* number of rows are unchanged.                                           *)
C20_StatusFrame ==
    [][(response'.op \in {"accept", "reject"} /\ response'.code = 200) =>
          /\ Cardinality(requests') = Cardinality(requests)
          /\ \A r \in requests :
                IF r.id = response'.arg
                THEN [r EXCEPT !.status =
                         IF response'.op = "accept" THEN "accepted" ELSE "rejected"]
                        \in requests'
                ELSE r \in requests']_vars

(* an accept has changed one row while rows of other statuses stayed *)
C20_Witness ==
    /\ response.op = "accept"
    /\ response.code = 200
    /\ \E r \in requests : r.id = response.arg /\ r.status = "accepted"
    /\ \E r \in requests : r.id # response.arg /\ r.status = "pending"
    /\ \E r \in requests : r.id # response.arg /\ r.status = "rejected"

(* C13: accept and reject applied to one existing request id, one after    *)
(* the other or with their read and write steps interleaved: each write    *)
(* sets the row's status to its own value whatever was written before, so  *)
(* the last write decides; the status is accepted or rejected from the     *)
(* first write on, and no other field, no other row and not the number of  *)
(* rows changes.                                                           *)
C13_LastWriteWins ==
    /\ [][\A p \in Procs :
            (tasks[p].pc = "save" /\ tasks'[p].pc = "done") =>
               /\ tasks'[p].code = 200
               /\ Cardinality(requests') = Cardinality(requests)
               /\ \A r \in requests :
                     IF r.id = tasks[p].arg
                     THEN [r EXCEPT !.status =
                              IF tasks[p].op = "accept" THEN "accepted" ELSE "rejected"]
                             \in requests'
                     ELSE r \in requests']_vars
    /\ [](\A p \in Procs :
            (tasks[p].pc = "done" /\ tasks[p].op \in {"accept", "reject"}
               /\ tasks[p].code = 200) =>
                  \A r \in requests :
                     r.id = tasks[p].arg => r.status \in {"accepted", "rejected"})

(* a reject that read the row while it was pending is about to write after *)
(* an accept of the same id has written                                    *)
C13_Witness ==
    \E p \in Procs, q \in Procs :
        /\ p # q
        /\ tasks[p].pc = "done" /\ tasks[p].op = "accept" /\ tasks[p].code = 200
        /\ tasks[q].pc = "save" /\ tasks[q].op = "reject"
        /\ tasks[q].arg = tasks[p].arg
        /\ tasks[q].obj.status = "pending"
        /\ \E r \in requests : r.id = tasks[p].arg /\ r.status = "accepted"

(* C17: every user has at most 3 pending outgoing requests in every        *)
(* reachable state, sends by one user to different recipients running with *)
(* their count check and create interleaved included.                      *)
C17_PendingAtMostThree ==
    \A F \in Users : PendingOutgoing(requests, F) <= 3

(* C14: of the operations the service exposes on friend requests only send *)
(* and accept/reject change the FriendRequest table, and no row is ever    *)
(* deleted.                                                                *)
C14_TwoEntryPoints ==
    [][/\ (requests' # requests => response'.op \in {"send", "accept", "reject"})
       /\ \A r \in requests : \E n \in requests' : n.id = r.id]_vars
====
